---- MODULE Spec2Model ----
(***************************************************************************)
(* State-machine model of the Uber Eats scraper (src/main.py).             *)
(*                                                                         *)
(* One process: the main thread runs scrape_country (or, with --resume,    *)
(* resume_failed_scraping) for each country code in turn; scrape_country   *)
(* hands one scrape_city job per city to a ThreadPoolExecutor and merges   *)
(* the results in its as_completed loop.  Shared between the threads are   *)
(* GlobalConfig (data, cancel_requested, IsConnectionsAvailable,           *)
(* current_file) and two files per country: countries/<cc>.json (the       *)
(* state file) and failed_links_<cc>.json (the ledger file).               *)
(*                                                                         *)
(* Threads interleave between their reads and writes of the shared state:  *)
(* each action below is one such step of one thread.                       *)
(***************************************************************************)
EXTENDS Integers, Sequences, FiniteSets, TLC

\* ---------------------------------------------------------------- bounds
\* --threads (args.threads): the size of the worker pool.
NumWorkers == 2
\* The largest number of shops one city page lists.
MaxShops == 2

Main == 0
Workers == 1..NumWorkers
Threads == {Main} \cup Workers

\* ------------------------------------------------------------ the inputs
\* The country codes given on the command line (countries_to_scrape).
countries_to_scrape == <<"fr", "de">>

\* What a request can end in (the except clauses of scrape_city and
\* scrape_country): a response, or one of the four classes of error.
FetchErrors == {"ConnectionError", "Timeout", "HTTPError", "RequestException"}
\* The three classes whose handler clears IsConnection.
ConnectionFaults == {"ConnectionError", "Timeout", "HTTPError"}

\* ------------------------------------------------------- pure functions
\* str.lower() on the strings of the model.
Lower(s) ==
  CASE s = "FR" -> "fr"
    [] s = "DE" -> "de"
    [] s = "UK" -> "uk"
    [] s = "GB" -> "gb"
    [] s = "Paris" -> "paris"
    [] OTHER -> s

\* str.upper() on the country codes of the model.
Upper(s) ==
  CASE s = "fr" -> "FR"
    [] s = "de" -> "DE"
    [] s = "uk" -> "UK"
    [] s = "gb" -> "GB"
    [] OTHER -> s

\* city_name.strip().lower(): the names of the model carry no outer blanks.
Normalize(s) == Lower(s)

get_country_code(code) == IF Lower(code) = "uk" THEN "gb" ELSE Lower(code)

CountryCodes == {get_country_code(countries_to_scrape[i]) : i \in DOMAIN countries_to_scrape}

\* city_url = f"https://www.ubereats.com{href}"
CityUrl(cc, name) == "https://www.ubereats.com/" \o cc \o "/city/" \o Lower(name)
\* url_country = f"https://www.ubereats.com/{cc}/location"
CountryUrl(cc) == "https://www.ubereats.com/" \o cc \o "/location"

\* The shops scrape_city extracts from a city page that lists k of them:
\* one record per store link, identified by its link.
Shops(name, k) == [i \in 1..k |-> [name |-> name, link |-> <<Lower(name), i>>]]

\* ------------------------------------------------------------ sequences
RECURSIVE SelectIdx(_, _, _)
\* The least index i >= from of s with P(s[i]) given as the set ok of
\* indices, or 0.
SelectIdx(n, ok, from) ==
  IF from > n THEN 0
  ELSE IF from \in ok THEN from
  ELSE SelectIdx(n, ok, from + 1)

FirstIdx(s, ok) == SelectIdx(Len(s), ok, 1)

\* s without its element at index i.
RemoveAt(s, i) == [j \in 1..(Len(s) - 1) |-> IF j < i THEN s[j] ELSE s[j + 1]]

Range(s) == {s[i] : i \in DOMAIN s}

\* ----------------------------------------------------------- data model
\* {"country": "", "cities": []}
EmptyData == [country |-> "", cities |-> <<>>]

CityEntry(name, link, shops) == [city |-> name, link |-> link, shops |-> shops]

\* A file: absent, or holding a complete document ("full"), or nothing
\* (open(path, "w") truncated it and nothing has been flushed), or a prefix
\* of a document ("part"), or what cleanup_json_file made of an incomplete
\* one ("patched").
AbsentState == [st |-> "absent", doc |-> EmptyData]
FullState(d) == [st |-> "full", doc |-> d]
TornState(s) == [st |-> s, doc |-> EmptyData]

AbsentLedger == [st |-> "absent", doc |-> <<>>]
FullLedger(d) == [st |-> "full", doc |-> d]
TornLedger(s) == [st |-> s, doc |-> <<>>]

\* json.load succeeds on the file.
Parseable(f) == f.st = "full"

\* failed_data[cc], a dict city_name -> [links], as the sequence of its
\* items in insertion order.
LedgerKeys(fd) == {fd[i].city : i \in DOMAIN fd}
LedgerIdx(fd, name) == FirstIdx(fd, {i \in DOMAIN fd : fd[i].city = name})
LedgerLinks(fd, name) ==
  IF name \in LedgerKeys(fd) THEN fd[LedgerIdx(fd, name)].links ELSE <<>>

\* d[k].append(v) / d[k] = [] of a dict held as its item sequence.
LedgerAdd(fd, name, link) ==
  IF name \in LedgerKeys(fd)
    THEN [fd EXCEPT ![LedgerIdx(fd, name)].links = Append(@, link)]
    ELSE Append(fd, [city |-> name, links |-> <<link>>])

\* The index of the first entry of cities whose normalized name is that of
\* name, or 0 (the next(...) of log_failed_link, the scan of resume).
CityIdx(cities, name) ==
  FirstIdx(cities, {i \in DOMAIN cities : Normalize(cities[i].city) = Normalize(name)})

\* -------------------------------------------------------------- the state
VARIABLES
  resume,                  \* args.resume
  fetcher,                 \* the remote site: "any" outcome, or "ok" (it always answers)
  listing,                 \* the remote site: the cities of each country's listing page
  start,                   \* the state file and the ledger file of "fr" at the start
  cancel_requested,        \* GlobalConfig.cancel_requested
  IsConnectionsAvailable,  \* GlobalConfig.IsConnectionsAvailable
  current_file,            \* GlobalConfig.current_file: "None" or a country code
  data,                    \* GlobalConfig.data
  stateFile,               \* countries/<cc>.json, by cc
  ledgerFile,              \* failed_links_<cc>.json, by cc
  pc,                      \* where each thread is
  loc,                     \* each thread's local variables
  jobs,                    \* future_to_city: the submitted scrape_city jobs
  ti,                      \* the index in countries_to_scrape of the main loop
  country,                 \* scrape_country's local: the display name
  ret,                     \* how the run of each country ended ("" = not yet)
  fetched,                 \* the cities whose page this process has requested
  dirty                    \* threads whose open ledger write another write overlapped

vars == <<resume, fetcher, listing, start, cancel_requested, IsConnectionsAvailable, current_file,
          data, stateFile, ledgerFile, pc, loc, jobs, ti, country, ret, fetched, dirty>>

\* The country the process is working on.
cc == get_country_code(countries_to_scrape[IF ti \in DOMAIN countries_to_scrape THEN ti ELSE 1])

\* What scrape_city returns, with the way it came to return it: by |-> "page"
\* when the page arrived, "raised" when the request raised, "nothing" when
\* no request was sent.  The caller sees none and shops only.
NoResult == [none |-> FALSE, shops |-> <<>>, by |-> "nothing"]
\* scrape_city falls off its end (returns None) after a connection fault.
NoneResult == [none |-> TRUE, shops |-> <<>>, by |-> "raised"]
\* The empty list scrape_city returns after a RequestException that is no
\* connection fault.
RaisedResult == [none |-> FALSE, shops |-> <<>>, by |-> "raised"]
Result(shops) == [none |-> FALSE, shops |-> shops, by |-> "page"]
\* "if shops:" / "if not shops:"
Truthy(res) == ~res.none /\ res.shops # <<>>

NoLocals == [city |-> "", link |-> "", fd |-> <<>>, stk |-> <<>>, res |-> NoResult,
             job |-> 0, todo |-> <<>>, rfd |-> <<>>]

\* ----------------------------------------------------------- the start
\* The files a run can start from: none (a first run), or what an earlier
\* run of this program left behind.
ResolvedFr ==
  [country |-> "FR",
   cities |-> << CityEntry("paris", CityUrl("fr", "paris"), Shops("paris", MaxShops)),
                 CityEntry("lyon", CityUrl("fr", "lyon"), Shops("lyon", 1)) >>]

PendingLyonFr ==
  [country |-> "FR",
   cities |-> << CityEntry("paris", CityUrl("fr", "paris"), Shops("paris", 1)),
                 CityEntry("lyon", CityUrl("fr", "lyon"), <<>>) >>]

PendingBothFr ==
  [country |-> "FR",
   cities |-> << CityEntry("paris", CityUrl("fr", "paris"), <<>>),
                 CityEntry("lyon", CityUrl("fr", "lyon"), <<>>) >>]

LedgerLyon == << [city |-> "lyon", links |-> <<CityUrl("fr", "lyon")>>] >>

LedgerBoth ==
  << [city |-> "lyon", links |-> <<CityUrl("fr", "lyon"), CityUrl("fr", "lyon")>>],
     [city |-> "paris", links |-> <<CityUrl("fr", "paris")>>] >>

\* The runs checked: the files of "fr" at the start, and the anchors of its
\* listing page that pass the href.startswith("/fr/city") test, by their
\* text, in page order.
Scenarios ==
  { [state |-> AbsentState, ledger |-> AbsentLedger, anchors |-> <<>>],
    [state |-> AbsentState, ledger |-> AbsentLedger, anchors |-> <<"paris", "lyon">>],
    [state |-> AbsentState, ledger |-> AbsentLedger, anchors |-> <<"paris", "lyon", "nice">>],
    [state |-> FullState(ResolvedFr), ledger |-> AbsentLedger, anchors |-> <<>>],
    [state |-> FullState(ResolvedFr), ledger |-> AbsentLedger, anchors |-> <<"paris", "lyon">>],
    [state |-> FullState(PendingLyonFr), ledger |-> FullLedger(LedgerLyon),
     anchors |-> <<"paris", "lyon">>],
    [state |-> FullState(PendingBothFr), ledger |-> FullLedger(LedgerBoth),
     anchors |-> <<"paris", "lyon">>] }

\* The state of "fr" with paris alone.
ParisOnlyFr ==
  [country |-> "FR",
   cities |-> << CityEntry("paris", CityUrl("fr", "paris"), Shops("paris", 1)) >>]

\* What a run leaves behind when lyon was discovered and its fetch failed
\* while no save_data call got through (lines 219-222: the error is logged
\* and the run goes on): log_failed_link has written the ledger, and the
\* state file is the one of the run before.
OrphanScenarios ==
  { [state |-> FullState(ParisOnlyFr), ledger |-> FullLedger(LedgerLyon),
     anchors |-> <<"paris", "lyon">>] }

\* The state of "fr" in which lyon's entry has no link: the entry the test
\* of line 446 (not city_detail.get("link")) is written for.
BlankLyonFr ==
  [country |-> "FR",
   cities |-> << CityEntry("paris", CityUrl("fr", "paris"), Shops("paris", 1)),
                 CityEntry("lyon", "", <<>>) >>]

\* A state file with a city whose link is empty, and a listing page that
\* names the city.
BlankScenarios ==
  { [state |-> FullState(BlankLyonFr), ledger |-> AbsentLedger,
     anchors |-> <<"paris", "lyon">>] }

\* A listing page that names one city twice, in two capitalisations.
CaseScenarios ==
  { [state |-> AbsentState, ledger |-> AbsentLedger, anchors |-> <<"paris", "Paris">>] }

\* The start of the process against the site f, in one of the runs of S.
InitFrom(f, S) ==
  /\ resume \in BOOLEAN
  /\ fetcher = f
  /\ cancel_requested = FALSE
  /\ IsConnectionsAvailable = TRUE
  /\ current_file = "None"
  /\ data = EmptyData
  /\ \E s \in S :
       /\ stateFile = [c \in CountryCodes |-> IF c = "fr" THEN s.state ELSE AbsentState]
       /\ ledgerFile = [c \in CountryCodes |-> IF c = "fr" THEN s.ledger ELSE AbsentLedger]
       /\ listing = [c \in CountryCodes |-> IF c = "fr" THEN s.anchors ELSE <<"berlin">>]
       /\ start = [state |-> s.state, ledger |-> s.ledger]
  /\ pc = [t \in Threads |-> IF t = Main THEN "loop" ELSE "idle"]
  /\ loc = [t \in Threads |-> NoLocals]
  /\ jobs = <<>>
  /\ ti = 1
  /\ country = ""
  /\ ret = [i \in DOMAIN countries_to_scrape |-> ""]
  /\ fetched = {}
  /\ dirty = {}

InitWith(f) == InitFrom(f, Scenarios)

Init == InitWith("any")

\* ------------------------------------------------------- calls, returns
\* Thread t calls the procedure that starts at label to and comes back at
\* label back.
Call(l, to, back) == [l EXCEPT !.stk = <<back>> \o @]
Goto(t, label) == pc' = [pc EXCEPT ![t] = label]
Return(t) ==
  /\ pc' = [pc EXCEPT ![t] = Head(loc[t].stk)]
  /\ loc' = [loc EXCEPT ![t].stk = Tail(@)]

MainGone == pc[Main] \in {"ended", "interrupted", "crashed"}

\* --------------------------------------------------------------- save_data
\* save_data, first half: current_file is set and open(file_path, "w")
\* truncates the state file.
save_data_open(t) ==
  /\ pc[t] = "sv_open"
  /\ current_file' = cc
  /\ stateFile' = [stateFile EXCEPT ![cc] = TornState("empty")]
  /\ Goto(t, "sv_write")
  /\ UNCHANGED <<resume, fetcher, listing, start, cancel_requested, IsConnectionsAvailable, data,
                 ledgerFile, loc, jobs, ti, country, ret, fetched, dirty>>

\* json.dump writes the document chunk by chunk: a full buffer reaches the
\* file before the rest does.
save_data_flush(t) ==
  /\ pc[t] = "sv_write"
  /\ stateFile[cc].st = "empty"
  /\ stateFile' = [stateFile EXCEPT ![cc] = TornState("part")]
  /\ UNCHANGED <<resume, fetcher, listing, start, cancel_requested, IsConnectionsAvailable, current_file,
                 data, ledgerFile, pc, loc, jobs, ti, country, ret, fetched, dirty>>

\* save_data, second half: the dump ends and the file is closed.
save_data_write(t) ==
  /\ pc[t] = "sv_write"
  /\ stateFile' = [stateFile EXCEPT ![cc] = FullState(data)]
  /\ Return(t)
  /\ UNCHANGED <<resume, fetcher, listing, start, cancel_requested, IsConnectionsAvailable, current_file,
                 data, ledgerFile, jobs, ti, country, ret, fetched, dirty>>

\* save_data when open(file_path, "w") raises (lines 215 and 219-222: no
\* such directory, no permission, no space): current_file is set, the
\* file is as it was, the error is logged and False is returned.
save_data_fail(t) ==
  /\ pc[t] = "sv_open"
  /\ current_file' = cc
  /\ Return(t)
  /\ UNCHANGED <<resume, fetcher, listing, start, cancel_requested, IsConnectionsAvailable, data,
                 stateFile, ledgerFile, jobs, ti, country, ret, fetched, dirty>>

\* --------------------------------------------------------- log_failed_link
\* The threads that hold the ledger file open for writing.
LedgerWriters == {u \in Threads : pc[u] \in {"lf_write", "rs_lwrite"}}

\* log_failed_link(cc, city_name, link), lines 143-170: the ledger file is
\* read (a file json.load cannot parse raises, and the function returns
\* False), the link is appended to the city's list, and a city that
\* GlobalConfig.data lacks gets an entry with no shops, which is saved.
log_failed_link_read(t) ==
  /\ pc[t] = "lf_read"
  /\ LET f == ledgerFile[cc]
         name == loc[t].city
         link == loc[t].link
     IN IF f.st \notin {"absent", "full"}
          THEN /\ Return(t)
               /\ UNCHANGED data
          ELSE LET fd == LedgerAdd(IF f.st = "absent" THEN <<>> ELSE f.doc, name, link)
               IN IF CityIdx(data.cities, name) # 0
                    THEN /\ loc' = [loc EXCEPT ![t].fd = fd]
                         /\ Goto(t, "lf_open")
                         /\ UNCHANGED data
                    ELSE /\ data' = [data EXCEPT !.cities = Append(@, CityEntry(name, link, <<>>))]
                         /\ loc' = [loc EXCEPT ![t] = Call([@ EXCEPT !.fd = fd], "sv_open", "lf_open")]
                         /\ Goto(t, "sv_open")
  /\ UNCHANGED <<resume, fetcher, listing, start, cancel_requested, IsConnectionsAvailable, current_file,
                 stateFile, ledgerFile, jobs, ti, country, ret, fetched, dirty>>

\* Line 172: open(failed_links_file, 'w') truncates the ledger file.
log_failed_link_open(t) ==
  /\ pc[t] = "lf_open"
  /\ ledgerFile' = [ledgerFile EXCEPT ![cc] = TornLedger("empty")]
  /\ Goto(t, "lf_write")
  /\ UNCHANGED <<resume, fetcher, listing, start, cancel_requested, IsConnectionsAvailable, current_file,
                 data, stateFile, loc, jobs, ti, country, ret, fetched, dirty>>

\* Line 173: the dump of this thread's failed_data.  When another thread
\* wrote the file after this one opened it, the two documents overlay each
\* other from offset 0: the file holds this thread's document, or this
\* document followed by the tail of the longer one ("mixed").
log_failed_link_write(t) ==
  /\ pc[t] = "lf_write"
  /\ \E st \in (IF t \in dirty THEN {"full", "mixed"} ELSE {"full"}) :
       ledgerFile' = [ledgerFile EXCEPT ![cc] =
                        IF st = "full" THEN FullLedger(loc[t].fd) ELSE TornLedger("mixed")]
  /\ dirty' = (dirty \ {t}) \cup (LedgerWriters \ {t})
  /\ pc' = [pc EXCEPT ![t] = Head(loc[t].stk)]
  /\ loc' = [loc EXCEPT ![t].stk = Tail(@), ![t].fd = <<>>]
  /\ UNCHANGED <<resume, fetcher, listing, start, cancel_requested, IsConnectionsAvailable, current_file,
                 data, stateFile, jobs, ti, country, ret, fetched>>

\* ------------------------------------------------------------- scrape_city
\* What the remote site may answer to the request of a city page: the
\* numbers of shops a page may list, and the errors a request may raise.
PageSizes == IF fetcher = "ok" THEN 1..MaxShops ELSE 0..MaxShops
Faults == IF fetcher = "ok" THEN {} ELSE FetchErrors

\* scrape_city returns res: to resume_failed_scraping when the main thread
\* ran it, else into the job's future, and the worker is free again.
ScrapeCityReturn(t, res) ==
  IF t = Main
    THEN /\ pc' = [pc EXCEPT ![t] = "rs_after"]
         /\ loc' = [loc EXCEPT ![t].res = res]
         /\ UNCHANGED jobs
    ELSE /\ pc' = [pc EXCEPT ![t] = "idle"]
         /\ loc' = [loc EXCEPT ![t] = NoLocals]
         /\ jobs' = [jobs EXCEPT ![loc[t].job].st = "done", ![loc[t].job].res = res]

\* session.get(city_url) can send a request when city_url has a scheme;
\* for any other string it raises MissingSchema, a RequestException.
HasScheme(link) == link \notin {"", "TEST"}

\* What the request of city_url can raise.
RequestFaults(link) == IF HasScheme(link) THEN Faults ELSE {"RequestException"}

\* Lines 292-295: the sleep is over and the request is sent.
scrape_city_get(t) ==
  /\ pc[t] = "ci_sleep"
  /\ fetched' = fetched \cup {loc[t].city}
  /\ Goto(t, "ci_fetch")
  /\ UNCHANGED <<resume, fetcher, listing, start, cancel_requested, IsConnectionsAvailable, current_file,
                 data, stateFile, ledgerFile, loc, jobs, ti, country, ret, dirty>>

\* Lines 295-313: the page arrives and lists k shops; the loop over them
\* returns what it has as soon as it sees cancel_requested, which is the
\* first n of them.
scrape_city_response(t) ==
  /\ pc[t] = "ci_fetch"
  /\ HasScheme(loc[t].link)
  /\ \E k \in PageSizes :
       \E n \in (IF cancel_requested THEN 0..k ELSE {k}) :
         ScrapeCityReturn(t, Result(Shops(loc[t].city, n)))
  /\ UNCHANGED <<resume, fetcher, listing, start, cancel_requested, IsConnectionsAvailable, current_file,
                 data, stateFile, ledgerFile, ti, country, ret, fetched, dirty>>

\* Lines 318-332: the request raises; every handler calls log_failed_link.
scrape_city_error(t) ==
  /\ pc[t] = "ci_fetch"
  /\ \E e \in RequestFaults(loc[t].link) :
       /\ loc' = [loc EXCEPT ![t] =
                    Call(@, "lf_read", IF e \in ConnectionFaults THEN "ci_fault" ELSE "ci_other")]
       /\ Goto(t, "lf_read")
  /\ UNCHANGED <<resume, fetcher, listing, start, cancel_requested, IsConnectionsAvailable, current_file,
                 data, stateFile, ledgerFile, jobs, ti, country, ret, fetched, dirty>>

\* Lines 333-337 after a ConnectionError, Timeout or HTTPError: IsConnection
\* is False, so the finally block sets cancel_requested and the function
\* returns None.
scrape_city_fault(t) ==
  /\ pc[t] = "ci_fault"
  /\ cancel_requested' = TRUE
  /\ ScrapeCityReturn(t, NoneResult)
  /\ UNCHANGED <<resume, fetcher, listing, start, IsConnectionsAvailable, current_file,
                 data, stateFile, ledgerFile, ti, country, ret, fetched, dirty>>

\* Lines 333-335 after another RequestException: the empty list is returned.
scrape_city_other(t) ==
  /\ pc[t] = "ci_other"
  /\ ScrapeCityReturn(t, RaisedResult)
  /\ UNCHANGED <<resume, fetcher, listing, start, cancel_requested, IsConnectionsAvailable, current_file,
                 data, stateFile, ledgerFile, ti, country, ret, fetched, dirty>>

\* ------------------------------------------------------------ the workers
PendingJobs == {j \in DOMAIN jobs : jobs[j].st = "pending"}

\* A free worker takes the oldest pending job and enters scrape_city, whose
\* first statement (line 289) returns the empty list when cancel_requested.
worker_run(w) ==
  /\ w \in Workers
  /\ pc[w] = "idle"
  /\ PendingJobs # {}
  /\ LET j == FirstIdx(jobs, PendingJobs)
     IN IF cancel_requested
          THEN /\ jobs' = [jobs EXCEPT ![j].st = "done", ![j].res = NoResult]
               /\ UNCHANGED <<pc, loc>>
          ELSE /\ jobs' = [jobs EXCEPT ![j].st = "running"]
               /\ loc' = [loc EXCEPT ![w] = [NoLocals EXCEPT !.city = jobs[j].city,
                                                             !.link = jobs[j].link,
                                                             !.job = j]]
               /\ Goto(w, "ci_sleep")
  /\ UNCHANGED <<resume, fetcher, listing, start, cancel_requested, IsConnectionsAvailable, current_file,
                 data, stateFile, ledgerFile, ti, country, ret, fetched, dirty>>

\* ---------------------------------------------------------- scrape_country
\* What scrape_country returns to its caller on each of its paths: the
\* string of line 377, the message of lines 386-388, and None on every other
\* path (the bare returns and the end of the function).
ReturnValue(r) ==
  CASE r = "connection_error" -> "Connection Error"
    [] r = "load_error" -> "Error: Country file is empty or invalid"
    [] OTHER -> "None"

\* scrape_country returns on path r: the main loop goes on to the next code.
NextCountry(r) ==
  /\ ret' = [ret EXCEPT ![ti] = r]
  /\ ti' = ti + 1
  /\ Goto(Main, "loop")

\* Lines 668-673 and 348: the loop over countries_to_scrape stops at its end
\* or when cancel_requested, and exit_program ends the process.
main_loop ==
  /\ ~resume
  /\ pc[Main] = "loop"
  /\ IF ti > Len(countries_to_scrape) \/ cancel_requested
       THEN Goto(Main, "ended")
       ELSE Goto(Main, "co_lookup")
  /\ UNCHANGED <<resume, fetcher, listing, start, cancel_requested, IsConnectionsAvailable, current_file,
                 data, stateFile, ledgerFile, loc, jobs, ti, country, ret, fetched, dirty>>

\* Lines 356-378: the display-name lookup.  A ConnectionError, Timeout or
\* HTTPError clears IsConnectionsAvailable; the finally block returns
\* "Connection Error" when the flag is clear and else sets the display name
\* to the upper-cased code.  o is what the request did.
scrape_country_lookup_on(o) ==
  /\ pc[Main] = "co_lookup"
  /\ LET avail == IF o \in ConnectionFaults THEN FALSE ELSE IsConnectionsAvailable
     IN /\ IsConnectionsAvailable' = avail
        /\ IF ~avail
             THEN /\ NextCountry("connection_error")
                  /\ UNCHANGED country
             ELSE /\ country' = Upper(cc)
                  /\ Goto(Main, "co_load")
                  /\ UNCHANGED <<ret, ti>>
  /\ UNCHANGED <<resume, fetcher, listing, start, cancel_requested, current_file,
                 data, stateFile, ledgerFile, loc, jobs, fetched, dirty>>

\* Line 360: the request of the lookup answers, or raises one of Faults.
scrape_country_lookup ==
  \E o \in {"ok"} \cup Faults : scrape_country_lookup_on(o)

\* load_existing_data: the default document when the file is absent, None
\* when json.load fails on it, else the document.
load_existing_data(f) ==
  CASE f.st = "absent" -> [none |-> FALSE, doc |-> EmptyData]
    [] f.st = "full" -> [none |-> FALSE, doc |-> f.doc]
    [] OTHER -> [none |-> TRUE, doc |-> EmptyData]

\* Lines 380-392: the state file is loaded into GlobalConfig.data.
scrape_country_load ==
  /\ pc[Main] = "co_load"
  /\ LET d == load_existing_data(stateFile[cc])
     IN IF d.none
          THEN /\ NextCountry("load_error")
               /\ UNCHANGED data
          ELSE /\ data' = [d.doc EXCEPT !.country = country]
               /\ Goto(Main, "co_listing")
               /\ UNCHANGED <<ret, ti>>
  /\ UNCHANGED <<resume, fetcher, listing, start, cancel_requested, IsConnectionsAvailable, current_file,
                 stateFile, ledgerFile, loc, jobs, country, fetched, dirty>>

\* A listing failure after which the data in memory would be saved.
scrape_country_listing_error_saving ==
  /\ pc[Main] = "co_listing"
  /\ \E e \in Faults :
       IsConnectionsAvailable' = (e \notin ConnectionFaults)
  /\ stateFile' = [stateFile EXCEPT ![cc] = FullState(data)]
  /\ NextCountry("listing_failed")
  /\ UNCHANGED <<resume, fetcher, listing, start, cancel_requested, current_file,
                 data, ledgerFile, loc, jobs, country, fetched, dirty>>

\* Lines 396-420: the request of the listing page raises.
scrape_country_listing_error ==
  /\ pc[Main] = "co_listing"
  /\ \E e \in Faults :
       IsConnectionsAvailable' = (e \notin ConnectionFaults)
  /\ NextCountry("listing_failed")
  /\ UNCHANGED <<resume, fetcher, listing, start, cancel_requested, current_file,
                 data, stateFile, ledgerFile, loc, jobs, country, fetched, dirty>>

RECURSIVE Discover(_, _, _, _)
\* Lines 434-468, from the i-th anchor on: a city whose name (as written)
\* an entry already has is skipped, after an entry with an empty link got
\* the link "TEST"; any other city is appended with no shops.
Discover(cities, code, anchors, i) ==
  IF i > Len(anchors) THEN cities
  ELSE LET name == anchors[i]
           known == \E j \in DOMAIN cities : cities[j].city = name
           next == IF known
                     THEN [j \in DOMAIN cities |->
                             IF cities[j].city = name /\ cities[j].link = ""
                               THEN [cities[j] EXCEPT !.link = "TEST"]
                               ELSE cities[j]]
                     ELSE Append(cities, CityEntry(name, CityUrl(code, name), <<>>))
       IN Discover(next, code, anchors, i + 1)

\* is_update: some listed city had an entry with an empty link.
IsUpdate(cities, anchors) ==
  \E j \in DOMAIN cities : cities[j].link = "" /\ cities[j].city \in Range(anchors)

\* Lines 396-478: the listing page arrives; its cities are merged into
\* GlobalConfig.data, which is saved when the page listed a city.  With no
\* city on the page and cities in the data the function returns.
scrape_country_listing ==
  /\ pc[Main] = "co_listing"
  /\ IsConnectionsAvailable' = TRUE
  /\ LET anchors == listing[cc]
         cities == Discover(data.cities, cc, anchors, 1)
           shop_count == Len(anchors)
     IN /\ data' = [data EXCEPT !.cities = cities]
        /\ IF cities # <<>> /\ shop_count < 1
             THEN /\ NextCountry("no_cities")
                  /\ UNCHANGED loc
             ELSE /\ UNCHANGED <<ret, ti>>
                  /\ IF shop_count > 0 \/ IsUpdate(data.cities, anchors)
                       THEN /\ loc' = [loc EXCEPT ![Main] = Call(@, "sv_open", "co_dispatch")]
                            /\ Goto(Main, "sv_open")
                       ELSE /\ Goto(Main, "co_dispatch")
                            /\ UNCHANGED loc
  /\ UNCHANGED <<resume, fetcher, listing, start, cancel_requested, current_file,
                 stateFile, ledgerFile, jobs, country, fetched, dirty>>

Job(entry) == [city |-> entry.city, link |-> entry.link, st |-> "pending",
               res |-> NoResult, yielded |-> FALSE]

\* Lines 480-498: one scrape_city job is submitted for every city of
\* GlobalConfig.data.
scrape_country_dispatch ==
  /\ pc[Main] = "co_dispatch"
  /\ IF cancel_requested
       THEN /\ NextCountry("cancelled")
            /\ UNCHANGED jobs
       ELSE /\ jobs' = [i \in DOMAIN data.cities |-> Job(data.cities[i])]
            /\ Goto(Main, "co_wait")
            /\ UNCHANGED <<ret, ti>>
  /\ UNCHANGED <<resume, fetcher, listing, start, cancel_requested, IsConnectionsAvailable, current_file,
                 data, stateFile, ledgerFile, loc, country, fetched, dirty>>

\* A merge that would add the fetched shops to the ones already stored.
MergeShopsExtend(cities, name, link, shops) ==
  IF \E j \in DOMAIN cities : cities[j].city = name
    THEN [j \in DOMAIN cities |->
            IF cities[j].city = name
              THEN [cities[j] EXCEPT !.shops = @ \o shops] ELSE cities[j]]
    ELSE Append(cities, CityEntry(name, link, shops))

\* Lines 519-527: the shops of every entry named name (as written) are
\* replaced; with no such entry one is appended.
MergeShops(cities, name, link, shops) ==
  IF \E j \in DOMAIN cities : cities[j].city = name
    THEN [j \in DOMAIN cities |->
            IF cities[j].city = name THEN [cities[j] EXCEPT !.shops = shops] ELSE cities[j]]
    ELSE Append(cities, CityEntry(name, link, shops))

\* Lines 500-530: as_completed yields a finished job.  With cancel_requested
\* the country itself is logged as failed and the function returns; a job
\* with no shops is logged as failed and the function returns; else the
\* shops are merged and the data saved.
scrape_country_completed ==
  /\ pc[Main] = "co_wait"
  /\ \E j \in DOMAIN jobs :
       /\ jobs[j].st = "done"
       /\ ~jobs[j].yielded
       /\ jobs' = [jobs EXCEPT ![j].yielded = TRUE]
       /\ IF cancel_requested
            THEN /\ loc' = [loc EXCEPT ![Main] =
                              Call([@ EXCEPT !.city = country, !.link = CountryUrl(cc)],
                                   "lf_read", "co_cancel")]
                 /\ Goto(Main, "lf_read")
                 /\ UNCHANGED data
            ELSE IF ~Truthy(jobs[j].res)
            THEN /\ loc' = [loc EXCEPT ![Main] =
                              Call([@ EXCEPT !.city = jobs[j].city, !.link = jobs[j].link],
                                   "lf_read", "co_empty")]
                 /\ Goto(Main, "lf_read")
                 /\ UNCHANGED data
            ELSE /\ data' = [data EXCEPT !.cities =
                               MergeShops(@, jobs[j].city, jobs[j].link, jobs[j].res.shops)]
                 /\ loc' = [loc EXCEPT ![Main] = Call(@, "sv_open", "co_wait")]
                 /\ Goto(Main, "sv_open")
  /\ UNCHANGED <<resume, fetcher, listing, start, cancel_requested, IsConnectionsAvailable, current_file,
                 stateFile, ledgerFile, ti, country, ret, fetched, dirty>>

\* Lines 505 and 511: the return out of the as_completed loop; line 500:
\* the loop ends when every job has been yielded.  Either way the with
\* statement is left.
LeavePath ==
  CASE pc[Main] = "co_cancel" -> "cancel1"
    [] pc[Main] = "co_empty" -> "empty_child"
    [] pc[Main] = "co_wait" /\ (\A j \in DOMAIN jobs : jobs[j].yielded) -> "completed"
    [] OTHER -> ""

scrape_country_leave ==
  /\ LeavePath # ""
  /\ ret' = [ret EXCEPT ![ti] = LeavePath]
  /\ Goto(Main, "co_join")
  /\ UNCHANGED <<resume, fetcher, listing, start, cancel_requested, IsConnectionsAvailable, current_file,
                 data, stateFile, ledgerFile, loc, jobs, ti, country, fetched, dirty>>

\* The end of the with statement (line 493): shutdown(wait=True) returns
\* when the workers have run every submitted job.
scrape_country_join ==
  /\ pc[Main] = "co_join"
  /\ \A j \in DOMAIN jobs : jobs[j].st = "done"
  /\ jobs' = <<>>
  /\ ti' = ti + 1
  /\ Goto(Main, "loop")
  /\ UNCHANGED <<resume, fetcher, listing, start, cancel_requested, IsConnectionsAvailable, current_file,
                 data, stateFile, ledgerFile, loc, country, ret, fetched, dirty>>

\* ---------------------------------------------------- resume_failed_scraping
\* The (city_name, link) pairs of failed_data in the order the two loops of
\* lines 241-243 visit them.
RECURSIVE RetryList(_)
RetryList(fd) ==
  IF fd = <<>> THEN <<>>
  ELSE [i \in DOMAIN fd[1].links |-> [city |-> fd[1].city, link |-> fd[1].links[i]]]
       \o RetryList(Tail(fd))

\* A removal that would leave the key of a city whose last link is gone.
LedgerRemoveLinkOnly(fd, name, link) ==
  LET i == LedgerIdx(fd, name)
      links == fd[i].links
      k == FirstIdx(links, {n \in DOMAIN links : links[n] = link})
  IN [fd EXCEPT ![i].links = RemoveAt(links, k)]

\* failed_data[cc][city_name].remove(link), then the del of a city left
\* with no link (lines 261-265).
LedgerRemove(fd, name, link) ==
  LET i == LedgerIdx(fd, name)
      links == fd[i].links
      k == FirstIdx(links, {n \in DOMAIN links : links[n] = link})
      rest == RemoveAt(links, k)
  IN IF rest = <<>> THEN RemoveAt(fd, i) ELSE [fd EXCEPT ![i].links = rest]

\* Lines 644-666: the loop of the resume mode loads the state file of the
\* next country and, unless it is missing, empty or unreadable, calls
\* resume_failed_scraping.
resume_loop ==
  /\ resume
  /\ pc[Main] = "loop"
  /\ IF ti > Len(countries_to_scrape) \/ cancel_requested
       THEN /\ Goto(Main, "ended")
            /\ UNCHANGED <<data, ret, ti>>
       ELSE LET d == load_existing_data(stateFile[cc])
            IN IF d.none
                 THEN /\ NextCountry("load_error")
                      /\ UNCHANGED data
                 ELSE IF d.doc = EmptyData
                 THEN /\ NextCountry("empty_file")
                      /\ UNCHANGED data
                 ELSE /\ data' = d.doc
                      /\ Goto(Main, "rs_load")
                      /\ UNCHANGED <<ret, ti>>
  /\ UNCHANGED <<resume, fetcher, listing, start, cancel_requested, IsConnectionsAvailable, current_file,
                 stateFile, ledgerFile, loc, jobs, country, fetched, dirty>>

\* Lines 229-239: without a ledger file there is nothing to resume; a
\* ledger file json.load cannot parse ends the process with the exception.
resume_failed_scraping_load ==
  /\ pc[Main] = "rs_load"
  /\ LET f == ledgerFile[cc]
     IN IF f.st = "absent"
          THEN /\ NextCountry("no_failed_links")
               /\ UNCHANGED loc
          ELSE IF ~Parseable(f)
          THEN /\ Goto(Main, "crashed")
               /\ UNCHANGED <<loc, ret, ti>>
          ELSE /\ loc' = [loc EXCEPT ![Main].rfd = f.doc, ![Main].todo = RetryList(f.doc)]
               /\ Goto(Main, "rs_next")
               /\ UNCHANGED <<ret, ti>>
  /\ UNCHANGED <<resume, fetcher, listing, start, cancel_requested, IsConnectionsAvailable, current_file,
                 data, stateFile, ledgerFile, jobs, country, fetched, dirty>>

\* Lines 241-248: the next link is retried, unless cancel_requested.
resume_failed_scraping_next ==
  /\ pc[Main] = "rs_next"
  /\ IF loc[Main].todo = <<>>
       THEN /\ NextCountry("resumed")
            /\ loc' = [loc EXCEPT ![Main] = NoLocals]
       ELSE IF cancel_requested
       THEN /\ NextCountry("resume_cancelled")
            /\ loc' = [loc EXCEPT ![Main] = NoLocals]
       ELSE /\ loc' = [loc EXCEPT ![Main].city = Head(loc[Main].todo).city,
                                  ![Main].link = Head(loc[Main].todo).link]
            /\ Goto(Main, "ci_sleep")
            /\ UNCHANGED <<ret, ti>>
  /\ UNCHANGED <<resume, fetcher, listing, start, cancel_requested, IsConnectionsAvailable, current_file,
                 data, stateFile, ledgerFile, jobs, country, fetched, dirty>>

\* Lines 252-255: the first entry with the city's normalized name gets the
\* shops; with no such entry nothing is stored.
ResumeShops(cities, name, shops) ==
  LET i == CityIdx(cities, name)
  IN IF i = 0 THEN cities ELSE [cities EXCEPT ![i].shops = shops]

\* Lines 248-258: scrape_city has returned; shops are stored and saved.
resume_failed_scraping_after ==
  /\ pc[Main] = "rs_after"
  /\ IF Truthy(loc[Main].res)
       THEN /\ data' = [data EXCEPT !.cities =
                          ResumeShops(@, loc[Main].city, loc[Main].res.shops)]
            /\ loc' = [loc EXCEPT ![Main] = Call(@, "sv_open", "rs_saved")]
            /\ Goto(Main, "sv_open")
       ELSE /\ loc' = [loc EXCEPT ![Main].todo = Tail(@)]
            /\ Goto(Main, "rs_next")
            /\ UNCHANGED data
  /\ UNCHANGED <<resume, fetcher, listing, start, cancel_requested, IsConnectionsAvailable, current_file,
                 stateFile, ledgerFile, jobs, ti, country, ret, fetched, dirty>>

\* Lines 261-268: the link leaves failed_data, and the ledger file is
\* opened for writing.
resume_failed_scraping_open ==
  /\ pc[Main] = "rs_saved"
  /\ loc' = [loc EXCEPT ![Main].rfd = LedgerRemove(@, loc[Main].city, loc[Main].link)]
  /\ ledgerFile' = [ledgerFile EXCEPT ![cc] = TornLedger("empty")]
  /\ Goto(Main, "rs_lwrite")
  /\ UNCHANGED <<resume, fetcher, listing, start, cancel_requested, IsConnectionsAvailable, current_file,
                 data, stateFile, jobs, ti, country, ret, fetched, dirty>>

\* Line 269: failed_data is dumped into the ledger file.
resume_failed_scraping_write ==
  /\ pc[Main] = "rs_lwrite"
  /\ ledgerFile' = [ledgerFile EXCEPT ![cc] = FullLedger(loc[Main].rfd)]
  /\ IF loc[Main].rfd = <<>>
       THEN /\ Goto(Main, "rs_remove")
            /\ UNCHANGED loc
       ELSE /\ loc' = [loc EXCEPT ![Main].todo = Tail(@)]
            /\ Goto(Main, "rs_next")
  /\ UNCHANGED <<resume, fetcher, listing, start, cancel_requested, IsConnectionsAvailable, current_file,
                 data, stateFile, jobs, ti, country, ret, fetched, dirty>>

\* Lines 272-273: the file of an empty ledger is removed.
resume_failed_scraping_remove ==
  /\ pc[Main] = "rs_remove"
  /\ ledgerFile' = [ledgerFile EXCEPT ![cc] = AbsentLedger]
  /\ loc' = [loc EXCEPT ![Main].todo = Tail(@)]
  /\ Goto(Main, "rs_next")
  /\ UNCHANGED <<resume, fetcher, listing, start, cancel_requested, IsConnectionsAvailable, current_file,
                 data, stateFile, jobs, ti, country, ret, fetched, dirty>>

\* --------------------------------------------------------------- interrupt
\* cleanup_json_file on the content of a file: a complete document ends
\* with "}" and is left alone; an incomplete one loses a trailing "{" or
\* "[" or gets a "}" appended, and stays incomplete.
cleanup_json_file(f) ==
  CASE f.st = "absent" -> f
    [] f.st = "full" -> f
    [] OTHER -> TornState("patched")

\* interrupt_handler: SIGINT reaches the main thread between two of its
\* steps; cancel_requested is set, the file named by current_file is
\* cleaned up, and exit_program leaves the main thread.  The workers run
\* on until the pool is empty.
interrupt_handler ==
  /\ ~MainGone
  /\ cancel_requested' = TRUE
  /\ stateFile' = IF current_file = "None"
                    THEN stateFile
                    ELSE [stateFile EXCEPT ![current_file] = cleanup_json_file(@)]
  /\ Goto(Main, "interrupted")
  /\ UNCHANGED <<resume, fetcher, listing, start, IsConnectionsAvailable, current_file,
                 data, ledgerFile, loc, jobs, ti, country, ret, fetched, dirty>>

\* ---------------------------------------------------------------- the spec
Next ==
  \/ main_loop
  \/ scrape_country_lookup
  \/ scrape_country_load
  \/ scrape_country_listing_error
  \/ scrape_country_listing
  \/ scrape_country_dispatch
  \/ scrape_country_completed
  \/ scrape_country_leave
  \/ scrape_country_join
  \/ resume_loop
  \/ resume_failed_scraping_load
  \/ resume_failed_scraping_next
  \/ resume_failed_scraping_after
  \/ resume_failed_scraping_open
  \/ resume_failed_scraping_write
  \/ resume_failed_scraping_remove
  \/ interrupt_handler
  \/ \E t \in Threads :
       \/ worker_run(t)
       \/ scrape_city_get(t)
       \/ scrape_city_response(t)
       \/ scrape_city_error(t)
       \/ scrape_city_fault(t)
       \/ scrape_city_other(t)
       \/ log_failed_link_read(t)
       \/ log_failed_link_open(t)
       \/ log_failed_link_write(t)
       \/ save_data_open(t)
       \/ save_data_flush(t)
       \/ save_data_write(t)

Spec == Init /\ [][Next]_vars

\* The program against a site that answers every request, with shops on
\* every city page, and without SIGINT: the steps left to it.  Every thread
\* that can take a step eventually takes one.
InitOk == InitWith("ok")

NextOk ==
  \/ main_loop
  \/ scrape_country_lookup
  \/ scrape_country_load
  \/ scrape_country_listing
  \/ scrape_country_dispatch
  \/ scrape_country_completed
  \/ scrape_country_leave
  \/ scrape_country_join
  \/ resume_loop
  \/ resume_failed_scraping_load
  \/ resume_failed_scraping_next
  \/ resume_failed_scraping_after
  \/ resume_failed_scraping_open
  \/ resume_failed_scraping_write
  \/ resume_failed_scraping_remove
  \/ \E t \in Threads :
       \/ worker_run(t)
       \/ scrape_city_get(t)
       \/ scrape_city_response(t)
       \/ save_data_open(t)
       \/ save_data_flush(t)
       \/ save_data_write(t)

SpecOk == InitOk /\ [][NextOk]_vars /\ WF_vars(NextOk)

\* The same site and no SIGINT, on a disk where the state file cannot
\* always be opened for writing.
NextDisk ==
  \/ NextOk
  \/ \E t \in Threads : save_data_fail(t)

SpecDisk == InitOk /\ [][NextDisk]_vars

\* The program on the runs of Scenarios and of CaseScenarios.
InitCase == InitFrom("any", Scenarios \cup CaseScenarios)

SpecCase == InitCase /\ [][Next]_vars

\* The program on the runs of Scenarios and of OrphanScenarios.
InitOrphan == InitFrom("any", Scenarios \cup OrphanScenarios)

SpecOrphan == InitOrphan /\ [][Next]_vars

\* The program on the runs of Scenarios and of BlankScenarios.
InitBlank == InitFrom("any", Scenarios \cup BlankScenarios)

SpecBlank == InitBlank /\ [][Next]_vars

\* ================================================================ claims
\* The entry of name (as written) in a list of cities, if any.
EntriesOf(cities, name) == {i \in DOMAIN cities : cities[i].city = name}

\* The with statement of scrape_country is about to be left: the
\* as_completed loop is over and every submitted job has run.
RunOver == pc[Main] = "co_join" /\ \A j \in DOMAIN jobs : jobs[j].st = "done"

\* No thread is inside log_failed_link, save_data or a ledger write.
Quiescent ==
  \A t \in Threads :
    pc[t] \notin {"lf_read", "lf_open", "lf_write", "sv_open", "sv_write",
                  "rs_saved", "rs_lwrite", "rs_remove"}

\* The shops the state in memory holds for the city of job j are the
\* shops the job's fetch returned.
Merged(j) ==
  /\ EntriesOf(data.cities, jobs[j].city) # {}
  /\ \A i \in EntriesOf(data.cities, jobs[j].city) : data.cities[i].shops = jobs[j].res.shops

\* C1 (as claimed): per-child fault isolation.  When the run of a country
\* is over, whatever happened to the other children, the page of every
\* child has been requested, and every child whose fetch returned shops has
\* them stored in the state.
C1_FaultIsolation ==
  RunOver =>
    \A j \in DOMAIN jobs :
      /\ jobs[j].city \in fetched
      /\ Truthy(jobs[j].res) => Merged(j)

\* The run started without files of "fr".
FreshStart == start.state = AbsentState /\ start.ledger = AbsentLedger

\* The index of the job of the city name, or 0.
JobOf(name) == FirstIdx(jobs, {j \in DOMAIN jobs : jobs[j].city = name})

\* C2 (as claimed): the concrete scenario.  From no prior state, with paris
\* and lyon discovered, when the fetch of paris returned two shops and the
\* fetch of lyon timed out, the run ends with the state [paris with its two
\* shops, lyon with none], a ledger holding lyon's link once and nothing
\* else, and on the path of a completed run.
C2_Scenario ==
  ( /\ ~resume /\ FreshStart /\ listing["fr"] = <<"paris", "lyon">>
    /\ cc = "fr" /\ RunOver
    /\ jobs[JobOf("paris")].res = Result(Shops("paris", 2))
    /\ jobs[JobOf("lyon")].res = NoneResult )
  => /\ data.cities = << CityEntry("paris", CityUrl("fr", "paris"), Shops("paris", 2)),
                         CityEntry("lyon", CityUrl("fr", "lyon"), <<>>) >>
     /\ stateFile["fr"] = FullState(data)
     /\ ledgerFile["fr"] = FullLedger(LedgerLyon)
     /\ ret[1] = "completed"

\* C3 (as claimed): the updates of the ledger are serialized, so when two
\* or more children ended in a connection fault and the run of the country
\* is over, each of them has its entry in the ledger file.
C3_NoLostFailure ==
  LET faulted == {j \in DOMAIN jobs : jobs[j].res.none}
  IN (RunOver /\ Cardinality(faulted) >= 2) =>
       \A j \in faulted :
         /\ Parseable(ledgerFile[cc])
         /\ jobs[j].city \in LedgerKeys(ledgerFile[cc].doc)

\* The cities of a state document, normalized.
StateKeys(d) == {Normalize(d.cities[i].city) : i \in DOMAIN d.cities}

\* C4 (as claimed): placeholder consistency.  Whenever no merge is in
\* progress, every city of a country's ledger file has an entry in the
\* country's state file.
C4_PlaceholderConsistency ==
  Quiescent =>
    \A c \in CountryCodes :
      Parseable(ledgerFile[c]) =>
        /\ Parseable(stateFile[c])
        /\ \A name \in LedgerKeys(ledgerFile[c].doc) :
             Normalize(name) \in StateKeys(stateFile[c].doc)

\* The run started from a fully resolved state of "fr" and no ledger, and
\* the listing page lists the cities of that state.
ResolvedStart ==
  /\ start.state = FullState(ResolvedFr)
  /\ start.ledger = AbsentLedger
  /\ listing["fr"] = <<"paris", "lyon">>

\* C5 (as claimed): idempotent re-run.  On a fully resolved state with no
\* ledger no child job is submitted and no city page is requested.
C5_IdempotentRerun ==
  (~resume /\ ResolvedStart /\ ti = 1) =>
    /\ jobs = <<>>
    /\ fetched = {}

\* C6 (as claimed): the state file is at every instant absent or a
\* complete document.
C6_CheckpointAtomic ==
  \A c \in CountryCodes : stateFile[c].st \in {"absent", "full"}

\* No link occurs twice in the list of a city.
NoDuplicateLinks(fd) ==
  \A i \in DOMAIN fd :
    \A m, n \in DOMAIN fd[i].links : fd[i].links[m] = fd[i].links[n] => m = n

\* C9 (as claimed): recording a failure is idempotent.  From a ledger that
\* holds no link twice, the ledger file never comes to hold a link twice
\* for one city.
C9_FailureIdempotent ==
  (start.ledger.st = "full" => NoDuplicateLinks(start.ledger.doc)) =>
    \A c \in CountryCodes :
      Parseable(ledgerFile[c]) => NoDuplicateLinks(ledgerFile[c].doc)

\* C10 (as claimed): the success merge of scrape_country.  Between two
\* completions, every job yielded so far has been merged: the entry of its
\* city holds the fetched shops and nothing else, the ledger has no entry
\* for the city, and a ledger left empty is deleted.
C10_SuccessMerge ==
  (~resume /\ pc[Main] = "co_wait") =>
    \A j \in DOMAIN jobs :
      jobs[j].yielded =>
        /\ Merged(j)
        /\ ledgerFile[cc].st = "full" =>
             /\ jobs[j].city \notin LedgerKeys(ledgerFile[cc].doc)
             /\ ledgerFile[cc].doc # <<>>

\* The cities of a state document that hold shops, normalized.
ResolvedKeys(d) ==
  {Normalize(d.cities[i].city) : i \in {n \in DOMAIN d.cities : d.cities[n].shops # <<>>}}

\* The ledger file of "fr" is absent or holds no city.
LedgerDrained ==
  \/ ledgerFile["fr"].st = "absent"
  \/ ledgerFile["fr"].st = "full" /\ ledgerFile["fr"].doc = <<>>

\* The resume of "fr" has returned with the ledger drained and every city
\* of the ledger it started from resolved, in memory and in the state file.
Drained ==
  /\ ret[1] # ""
  /\ LedgerDrained
  /\ Parseable(stateFile["fr"])
  /\ \A name \in LedgerKeys(start.ledger.doc) :
       /\ Normalize(name) \in ResolvedKeys(stateFile["fr"].doc)
       /\ Normalize(name) \in ResolvedKeys(data)

\* C7: the ledger drains.  Against a site that always answers with shops,
\* a resume that starts from a ledger with unresolved links (each city of
\* it having its entry in the state) comes to its end with the ledger file
\* absent or empty and every city of that ledger holding shops.
C7_LedgerDrains ==
  (resume /\ start.ledger.st = "full") => <>(pc[Main] = "ended" /\ Drained)

\* C7, the case: a resume of a ledger with three links has ended, drained.
C7_Witness ==
  /\ resume /\ fetcher = "ok"
  /\ start.ledger = FullLedger(LedgerBoth)
  /\ pc[Main] = "ended"
  /\ ret[1] = "resumed"
  /\ fetched = {"lyon", "paris"}
  /\ Drained

RECURSIVE SumLen(_, _)
\* The number of shops the first n jobs returned.
SumLen(js, n) == IF n = 0 THEN 0 ELSE Len(js[n].res.shops) + SumLen(js, n - 1)

RECURSIVE CountShops(_, _)
\* The number of shops of the first n entries.
CountShops(cities, n) == IF n = 0 THEN 0 ELSE Len(cities[n].shops) + CountShops(cities, n - 1)

\* C8: no duplicate and no lost shops.  Against a site that always answers
\* with at least one shop, a run with listed cities ends on the path of a completed
\* run, and when children were submitted then, whatever the order of the
\* completions, there is one entry per submitted child, each holding exactly the shops fetched for it; the
\* state holds as many shops as were fetched, no two with one link; and the
\* state file holds that state.
C8_NoDuplicateOrLostLeaves ==
  /\ (~resume /\ ret[1] # "" /\ listing["fr"] # <<>>) => ret[1] = "completed"
  /\ (~resume /\ RunOver /\ jobs # <<>>) =>
       /\ Len(data.cities) = Len(jobs)
       /\ \A j \in DOMAIN jobs :
            /\ Cardinality(EntriesOf(data.cities, jobs[j].city)) = 1
            /\ Merged(j)
            /\ Len(jobs[j].res.shops) >= 1
       /\ CountShops(data.cities, Len(data.cities)) = SumLen(jobs, Len(jobs))
       /\ \A i1, i2 \in DOMAIN data.cities :
            \A m \in DOMAIN data.cities[i1].shops, n \in DOMAIN data.cities[i2].shops :
              data.cities[i1].shops[m].link = data.cities[i2].shops[n].link
                => (i1 = i2 /\ m = n)
       /\ stateFile[cc] = FullState(data)

\* C8, the case: three children went through a pool of fewer workers, each
\* returned MaxShops shops, and the run is over.
C8_Witness ==
  /\ ~resume /\ fetcher = "ok" /\ ti = 1
  /\ RunOver
  /\ Len(jobs) = 3
  /\ NumWorkers < Len(jobs)
  /\ \A j \in DOMAIN jobs : Len(jobs[j].res.shops) = MaxShops
  /\ CountShops(data.cities, Len(data.cities)) = 3 * MaxShops

\* C11 (as claimed): cancel_requested becomes true only in the step of the
\* interrupt handler, and once true it stays true.
C11_CancelOnlyByInterrupt ==
  [][ /\ (~cancel_requested /\ cancel_requested') =>
           (pc[Main] # "interrupted" /\ pc'[Main] = "interrupted")
      /\ cancel_requested => cancel_requested' ]_vars

\* C12 (as claimed): no request of a city page is sent once
\* cancel_requested is set; a job that was in its sleep when the flag was
\* set returns without sending it.
C12_NoFetchAfterCancel ==
  [][ \A t \in Threads :
        (pc[t] = "ci_sleep" /\ pc'[t] = "ci_fetch") => ~cancel_requested ]_vars

\* C13 (as claimed): a cancellation leaves no trace.  Neither the state in
\* memory, nor a state file, nor a ledger file comes to hold an entry for
\* the country itself (the entry the handling of a completion under
\* cancel_requested would record).
C13_CancelLeavesNoTrace ==
  \A c \in CountryCodes :
    /\ \A i \in DOMAIN data.cities : data.cities[i].link # CountryUrl(c)
    /\ Parseable(stateFile[c]) =>
         \A i \in DOMAIN stateFile[c].doc.cities :
           stateFile[c].doc.cities[i].link # CountryUrl(c)
    /\ Parseable(ledgerFile[c]) =>
         \A i \in DOMAIN ledgerFile[c].doc :
           /\ ledgerFile[c].doc[i].city # Upper(c)
           /\ CountryUrl(c) \notin Range(ledgerFile[c].doc[i].links)

\* C14 (as claimed): whatever the outcome of the display-name lookup,
\* scrape_country goes on to load the state, with the upper-cased code as
\* the display name.
C14_LookupNeverAborts ==
  [][ (pc[Main] = "co_lookup" /\ pc'[Main] \notin {"co_lookup", "interrupted"}) =>
        (pc'[Main] = "co_load" /\ country' = Upper(cc)) ]_vars

\* The files of country c at the start of the process.
StartState(c) == IF c = "fr" THEN start.state ELSE AbsentState
StartLedger(c) == IF c = "fr" THEN start.ledger ELSE AbsentLedger

\* The cities of country c: those of its listing page and of its state file.
KnownCities(c) ==
  Range(listing[c]) \cup
    {StartState(c).doc.cities[i].city : i \in DOMAIN StartState(c).doc.cities}

\* The run of the i-th country ended at the failed request of its listing
\* page, with no child's page requested and both files as they were.
ListingFailedClean(i) ==
  LET c == get_country_code(countries_to_scrape[i])
  IN /\ fetched \cap KnownCities(c) = {}
     /\ stateFile[c] = StartState(c)
     /\ ledgerFile[c] = StartLedger(c)

EmptyPage(res) == res.by = "page" /\ res.shops = <<>>

\* The main thread is recording the failure of a child (the call of line
\* 510 and what follows it), or has left the as_completed loop after it.
HandlingEmpty ==
  \/ pc[Main] = "co_empty"
  \/ "co_empty" \in Range(loc[Main].stk)
  \/ (pc[Main] = "co_join" /\ ret[ti] = "empty_child")

\* The ledger file of "fr" after the first retried link left it.
FirstRemoved ==
  LET rest == LedgerRemove(start.ledger.doc, loc[Main].city, loc[Main].link)
  IN IF rest = <<>>
       THEN ledgerFile["fr"].st = "absent"
       ELSE ledgerFile["fr"] = FullLedger(rest)

\* C16 (as claimed): a page that arrives without error and lists no shop is
\* no failure.  In scrape_country the completion of such a job, handled
\* while cancel_requested is clear, is not recorded as failed and does not
\* end the as_completed loop; in resume_failed_scraping the link retried
\* with such a result has left the ledger file when the next link is up.
C16_EmptyIsNoFailure ==
  /\ \A j \in DOMAIN jobs :
       (~resume /\ ~cancel_requested /\ jobs[j].yielded /\ EmptyPage(jobs[j].res)
          /\ loc[Main].city = jobs[j].city)
         => ~HandlingEmpty
  /\ ( /\ resume /\ ~cancel_requested /\ ti = 1
       /\ pc[Main] = "rs_next"
       /\ EmptyPage(loc[Main].res)
       /\ Len(loc[Main].todo) = Len(RetryList(start.ledger.doc)) - 1 )
     => FirstRemoved

\* C17 (as claimed): a checkpoint that fails is fatal for the completion.
\* Whenever the as_completed loop is about to take the next completion
\* after having handled one, the state file holds the state in memory.
C17_PersistenceFaultFatal ==
  (~resume /\ pc[Main] = "co_wait" /\ \E j \in DOMAIN jobs : jobs[j].yielded)
    => stateFile[cc] = FullState(data)

\* The number of entries of the state in memory that the document d of the
\* state file lacks or holds with other content.
DocBehind(d) ==
  Cardinality({i \in DOMAIN data.cities :
                 i \notin DOMAIN d.cities \/ d.cities[i] # data.cities[i]})

\* Children are being merged: the jobs of scrape_country are submitted, or
\* resume_failed_scraping works on the state it loaded.
Merging ==
  \/ ~resume /\ jobs # <<>>
  \/ resume /\ data # EmptyData /\ data.country = Upper(cc)

\* C18 (as claimed): a checkpoint follows every merge.  At every point
\* while children are merged, an interrupt included, the state file holds
\* a state that is at most one child's merge behind the state in memory.
C18_CheckpointEveryMerge ==
  Merging =>
    /\ Parseable(stateFile[cc])
    /\ DocBehind(stateFile[cc].doc) <= 1

\* resume_failed_scraping works on the ledger of "fr" and a link is still
\* to be retried or is being retried.
Resuming == resume /\ ti = 1 /\ loc[Main].todo # <<>>

\* C19 (as claimed): at every instant of the replay of the ledger, an
\* interrupt included, the ledger file holds exactly the links of the
\* starting ledger that are not yet resolved, which is the failed_data
\* resume_failed_scraping keeps in memory.
C19_LedgerRewrittenPerLink ==
  Resuming => ledgerFile["fr"] = FullLedger(loc[Main].rfd)

\* No two entries of a list of cities have one normalized name.
UniqueNames(cities) ==
  \A i, j \in DOMAIN cities :
    Normalize(cities[i].city) = Normalize(cities[j].city) => i = j

\* C20 (as claimed): the names of the cities of a state are unique after
\* normalization, in memory and in every state file.
C20_UniqueIdentifiers ==
  /\ UniqueNames(data.cities)
  /\ \A c \in CountryCodes :
       Parseable(stateFile[c]) => UniqueNames(stateFile[c].doc.cities)

\* The paths of scrape_country that lie after the discovery loop.
PastDiscovery == {"no_cities", "cancelled", "cancel1", "empty_child", "completed"}

\* The run that ended on path r logged the warning of lines 470-473 ("No
\* cities found ... This might indicate an error in fetching the links").
WarnedNoCities(r) == r = "no_cities"

\* C21 (as claimed): empty discovery.  When the listing page of a country
\* names no city, a run over a state that already had cities ends without
\* the warning, and a run over a state without cities ends with it.
C21_EmptyDiscovery ==
  \A i \in DOMAIN ret :
    LET c == get_country_code(countries_to_scrape[i])
    IN (~resume /\ ret[i] \in PastDiscovery /\ listing[c] = <<>>) =>
         IF StartState(c).doc.cities # <<>>
           THEN ~WarnedNoCities(ret[i])
           ELSE WarnedNoCities(ret[i])

\* C22 (as claimed): resume replays every link of the ledger.  When
\* resume_failed_scraping has returned, the page of every city of the
\* ledger it started from has been requested, whatever the outcome of the
\* other retries, and a ledger that held no link twice holds none twice.
C22_ResumeReplaysAll ==
  (resume /\ ret[1] \in {"resumed", "resume_cancelled"}) =>
    /\ LedgerKeys(start.ledger.doc) \subseteq fetched
    /\ (NoDuplicateLinks(start.ledger.doc) /\ Parseable(ledgerFile["fr"]))
         => NoDuplicateLinks(ledgerFile["fr"].doc)

\* The city name of the starting ledger has no link left in the ledger
\* file of "fr".
LedgerCleared(name) ==
  \/ ledgerFile["fr"].st = "absent"
  \/ ledgerFile["fr"].st = "full" /\ name \notin LedgerKeys(ledgerFile["fr"].doc)

\* C23 (as claimed): resume loses no data.  In a resume, a city of the
\* starting ledger has left the ledger file only if the state in memory,
\* and every complete state file written since, has an entry of that city
\* which holds shops.
C23_ResumeLosesNoData ==
  (resume /\ start.ledger.st = "full") =>
    \A name \in LedgerKeys(start.ledger.doc) :
      LedgerCleared(name) =>
        /\ Normalize(name) \in ResolvedKeys(data)
        /\ Parseable(stateFile["fr"])
             => Normalize(name) \in ResolvedKeys(stateFile["fr"].doc)

\* C24 (as claimed): a discovery fault is terminal only for that country's
\* run.  After the listing fetch of one country has failed, every lookup of
\* the next country whose request answers goes on to load that country's
\* state (from where the listing page is fetched and the cities are
\* dispatched).
C24_ListingFaultIsLocal ==
  [][ ( /\ ti > 1
        /\ ret[ti - 1] = "listing_failed"
        /\ scrape_country_lookup_on("ok") )
      => pc'[Main] = "co_load" ]_vars

\* C25 (as claimed): discovery fills an empty link with the discovered URL.
\* In a crawl, once the listing page has been read, every entry of the
\* state whose city the listing page names has the URL of that city as its
\* link, and so has every job dispatched for such a city.
C25_DiscoveryFillsLink ==
  /\ (~resume /\ pc[Main] \in {"co_dispatch", "co_wait"}) =>
       \A i \in DOMAIN data.cities :
         data.cities[i].city \in Range(listing[cc]) =>
           data.cities[i].link = CityUrl(cc, data.cities[i].city)
  /\ (~resume /\ pc[Main] = "co_wait") =>
       \A j \in DOMAIN jobs :
         jobs[j].city \in Range(listing[cc]) =>
           jobs[j].link = CityUrl(cc, jobs[j].city)
====
